---------------------------- MODULE Spec2Model ----------------------------
(***************************************************************************)
(* Model of the market dashboard's data pipeline:                          *)
(*   - fetch_master_data (src/market_dashboard.py:45-103), the batched,    *)
(*     serial universe download, and its twin test_fetch_master_data       *)
(*     (src/tests/test_analysis.py:16-48);                                 *)
(*   - the module-level master fetch and halt (market_dashboard.py         *)
(*     493-515) and the tab renderers (562-582, 666-686);                  *)
(*   - fetch_data / fetch_unadjusted_data with their st.cache_data         *)
(*     decorators (src/modules/data_fetcher.py);                           *)
(*   - the analysis functions run_technical_analysis and                   *)
(*     run_generic_analysis (market_dashboard.py 107-337) and              *)
(*     get_technical_analysis and get_generic_analysis                     *)
(*     (src/modules/analysis.py), applied to bounded sets of tables;       *)
(*   - a session of script passes with the st.cache_data caches and the    *)
(*     "Refresh All Data" button (market_dashboard.py 15-45, 427-429).     *)
(* A table (DataFrame) is the sequence of its columns; a column of a batch *)
(* table is [field, sym, src], src naming the batch request it came from   *)
(* and standing for the column's data.                                     *)
(***************************************************************************)
EXTENDS Integers, Sequences, FiniteSets, TLC

\* ------------------------------------------------------------ bounds
\* Largest number of distinct symbols in a ticker list.
MaxTickers == 12
\* Largest number of repeated entries in a ticker list passed directly.
MaxDup == 1
\* The clock of the series cache runs from 0 to MaxClock minutes in steps
\* of TickStep minutes.
MaxClock == 15
TickStep == 5
\* A dashboard session is at most MaxPasses script passes long and lasts at
\* most MaxSessionClock minutes.
MaxPasses == 3
MaxSessionClock == 60
\* Largest number of leading rows of a price table whose close is missing.
MaxMissing == 1

\* -------------------------------------------------- program constants
\* market_dashboard.py:60
chunk_size == 10
\* market_dashboard.py:119 and 251: fewest bars an analysis accepts
MIN_BARS == 30
\* data_fetcher.py:6 and 33: cache time-to-live, in minutes
TTL_ADJUSTED == 5
TTL_UNADJUSTED == 15
\* market_dashboard.py:45 (ttl=3600 s) and 15, 29 (ttl=600 s), in minutes
TTL_MASTER == 60
TTL_CATALOGUE == 10
\* modules/analysis.py:119: fewest rows get_generic_analysis accepts
MIN_BARS_GENERIC == 200
\* market_dashboard.py:176 and 178: RSI thresholds
RSI_OVERBOUGHT == 70
RSI_OVERSOLD == 30

Symbols == 1..MaxTickers
\* Price fields of a provider table (two of OHLCV are enough to tell a
\* (field, symbol) key from a symbol).
Fields == <<"Close", "Low">>

\* Python's None, and a table value, in one shape so that they compare.
None == [none |-> TRUE, cols |-> <<>>]
Frame(cols) == [none |-> FALSE, cols |-> cols]

Min(a, b) == IF a < b THEN a ELSE b
Range(s) == {s[j] : j \in 1..Len(s)}

RECURSIVE SortedSeq(_)
SortedSeq(S) ==
    IF S = {} THEN <<>>
    ELSE LET m == CHOOSE x \in S : \A y \in S : x <= y
         IN  <<m>> \o SortedSeq(S \ {m})

\* list(set(tickers_list)): the distinct symbols in an order the set
\* iteration picks.  Every split of the symbols into consecutive chunks is
\* produced; inside one chunk (one multi-symbol request) the order is fixed.
RECURSIVE ListOfSet(_)
ListOfSet(S) ==
    IF Cardinality(S) <= chunk_size THEN {SortedSeq(S)}
    ELSE UNION { {SortedSeq(B) \o rest : rest \in ListOfSet(S \ B)} :
                 B \in {X \in SUBSET S : Cardinality(X) = chunk_size} }

\* The columns of a provider table for the symbols syms, from request k:
\* field-major, as yfinance lays out a multi-symbol download.
RECURSIVE ColumnsOf(_, _, _)
ColumnsOf(fs, syms, k) ==
    IF fs = <<>> THEN <<>>
    ELSE [j \in 1..Len(syms) |-> [field |-> Head(fs), sym |-> syms[j], src |-> k]]
         \o ColumnsOf(Tail(fs), syms, k)

Key(c) == <<c.field, c.sym>>

\* pd.concat(all_data_frames, axis=1): the frames' columns side by side.
RECURSIVE Concat(_)
Concat(frames) ==
    IF frames = <<>> THEN <<>> ELSE Head(frames) \o Concat(Tail(frames))

\* columns.duplicated(keep='last'): the last column of a label is kept.
RECURSIVE DropDuplicatedKeepLast(_, _)
DropDuplicatedKeepLast(cols, seen) ==
    IF cols = <<>> THEN <<>>
    ELSE IF \E j \in 2..Len(cols) : Key(cols[j]) = Key(Head(cols))
         THEN DropDuplicatedKeepLast(Tail(cols), seen)
         ELSE <<Head(cols)>> \o DropDuplicatedKeepLast(Tail(cols), seen)

\* final_df.loc[:, ~final_df.columns.duplicated()]: a column is dropped
\* when an earlier column has the same (field, symbol) label.
RECURSIVE DropDuplicated(_, _)
DropDuplicated(cols, seen) ==
    IF cols = <<>> THEN <<>>
    ELSE IF Key(Head(cols)) \in seen
         THEN DropDuplicated(Tail(cols), seen)
         ELSE <<Head(cols)>> \o DropDuplicated(Tail(cols), seen \cup {Key(Head(cols))})

VARIABLES
    caller,           \* "dashboard" (module level) or "harness" (direct call)
    tickers_input,    \* the argument of fetch_master_data
    pc,               \* position in the script
    tickers_list,     \* after deduplication
    i,                \* loop variable of the batch loop
    batch,            \* current batch
    all_data_frames,  \* tables of the successful batches
    inflight,         \* batch requests issued and not yet returned/raised
    log,              \* provider requests, their ends, and sleeps, in order
    result,           \* return value of fetch_master_data
    master_data,      \* module-level master table
    tab,              \* index of the tab being rendered
    pos,              \* position in the tab's ticker_dict
    analysis_results, \* records collected by the tab being rendered
    analysed,         \* symbols of this tab handed to the analysis
    returned,         \* symbols of this tab whose analysis gave a record
    clock,            \* minutes since the process started
    cache,            \* st.cache_data entries of the two series fetchers
    last,             \* the latest series-fetcher call and what it gave
    master_cache,     \* st.cache_data entries of fetch_master_data
    sheet_cache,      \* st.cache_data entries of the sheet loaders
    run,              \* the script pass under way: its number, how it began,
                      \* and what its cached calls did
    given,            \* the price series handed to an analysis function
    row               \* what the analysis function gave for it

fetchVars == <<caller, tickers_input, pc, tickers_list, i, batch,
               all_data_frames, inflight, log, result>>
tabVars == <<master_data, tab, pos, analysis_results, analysed, returned>>

seriesVars == <<clock, cache, last>>
refreshVars == <<master_cache, sheet_cache, run>>
analysisVars == <<given, row>>

vars == <<fetchVars, tabVars, seriesVars, refreshVars, analysisVars>>

\* The ticker dictionaries of the rendered tabs, in catalogue order (the
\* static dictionaries of lines 434-486, scaled down; a display name is
\* modelled by its symbol).  The sheet-loaded dictionaries add the symbols
\* above these to the universe.
TICKERS_TECHNICAL == <<1, 2, 3>>
TICKERS_GENERIC == <<4>>
Tabs == << [kind |-> "technical", ticker_dict |-> TICKERS_TECHNICAL],
           [kind |-> "generic", ticker_dict |-> TICKERS_GENERIC] >>
StaticTickers == Range(TICKERS_TECHNICAL) \cup Range(TICKERS_GENERIC)

\* Number of the batch that starts at index i (1-based).
BatchNo(ix) == ix \div chunk_size + 1

\* Ticker lists: the symbols 1..n followed by d entries that repeat the
\* list from its start.
InputList(n, d) == [j \in 1..(n + d) |-> IF j <= n THEN j ELSE j - n]

\* Lines 496-505: master_ticker_list = list(unique_tickers), the static
\* symbols and whatever the sheets gave (nothing, when the load failed).
MasterTickerLists == {InputList(n, 0) : n \in Cardinality(StaticTickers)..MaxTickers}

\* Any list may be passed to the function directly (as the test twin is).
HarnessLists ==
    {InputList(p[1], p[2]) : p \in {q \in (0..MaxTickers) \X (0..MaxDup) : q[2] <= q[1]}}

\* No series-fetcher call made yet.
NoCall == [called |-> FALSE, fn |-> "", sym |-> 0, period |-> "", at |-> 0,
           requested |-> FALSE, outcome |-> "", propagated |-> FALSE,
           result |-> [none |-> TRUE, cols |-> <<>>, data |-> <<>>]]

\* The first script pass of a session, nothing cached yet.
NoRun == [pass |-> 1, refreshed |-> FALSE, sheet_hit |-> FALSE,
          had_live |-> FALSE, hit |-> FALSE, prev_hit_none |-> FALSE]

\* No analysis call made yet.
NoFrame == [fn |-> ""]
NoRow == [fn |-> "", ok |-> FALSE]

InitRest ==
    /\ master_cache = {}
    /\ sheet_cache = {}
    /\ run = NoRun
    /\ row = NoRow
    /\ clock = 0
    /\ cache = {}
    /\ last = NoCall
    /\ master_data = None
    /\ tab = 0
    /\ pos = 0
    /\ analysis_results = <<>>
    /\ analysed = {}
    /\ returned = {}
    /\ tickers_list = <<>>
    /\ i = 0
    /\ batch = <<>>
    /\ all_data_frames = <<>>
    /\ inflight = {}
    /\ log = <<>>
    /\ result = None

Init ==
    /\ \/ caller = "dashboard" /\ tickers_input \in MasterTickerLists
       \/ caller = "harness" /\ tickers_input \in HarnessLists
    /\ pc = "enter"
    /\ given = NoFrame
    /\ InitRest

\* Enter without line 54: the list is batched as passed.
EnterNoDedup ==
    /\ pc = "enter"
    /\ IF tickers_input = <<>>
       THEN /\ pc' = "returned"
            /\ result' = None
            /\ UNCHANGED tickers_list
       ELSE /\ tickers_list' = tickers_input
            /\ pc' = "loop"
            /\ UNCHANGED result
    /\ i' = 0
    /\ all_data_frames' = <<>>
    /\ UNCHANGED <<caller, tickers_input, batch, inflight, log, tabVars, seriesVars, refreshVars, analysisVars>>

\* fetch_master_data, lines 50-62: the empty-list guard and deduplication.
Enter ==
    /\ pc = "enter"
    /\ IF tickers_input = <<>>
       THEN /\ pc' = "returned"
            /\ result' = None
            /\ UNCHANGED tickers_list
       ELSE /\ tickers_list' \in ListOfSet(Range(tickers_input))
            /\ pc' = "loop"
            /\ UNCHANGED result
    /\ i' = 0
    /\ all_data_frames' = <<>>
    /\ UNCHANGED <<caller, tickers_input, batch, inflight, log, tabVars, seriesVars, refreshVars, analysisVars>>

\* Request that does not wait for the answer: the loop goes straight on
\* to the next batch.
RequestNoWait ==
    /\ pc = "loop"
    /\ i < Len(tickers_list)
    /\ batch' = SubSeq(tickers_list, i + 1, Min(i + chunk_size, Len(tickers_list)))
    /\ inflight' = inflight \cup {BatchNo(i)}
    /\ log' = Append(log, [ev |-> "request", k |-> BatchNo(i), threads |-> TRUE,
                           batch |-> batch'])
    /\ i' = i + chunk_size
    /\ pc' = "loop"
    /\ UNCHANGED <<caller, tickers_input, tickers_list, all_data_frames, result, tabVars, seriesVars, refreshVars, analysisVars>>

\* Lines 65-75: take the next batch and issue its request (threads=False).
Request ==
    /\ pc = "loop"
    /\ i < Len(tickers_list)
    /\ batch' = SubSeq(tickers_list, i + 1, Min(i + chunk_size, Len(tickers_list)))
    /\ inflight' = inflight \cup {BatchNo(i)}
    /\ log' = Append(log, [ev |-> "request", k |-> BatchNo(i), threads |-> FALSE,
                           batch |-> batch'])
    /\ pc' = "download"
    /\ UNCHANGED <<caller, tickers_input, tickers_list, i, all_data_frames, result, tabVars, seriesVars, refreshVars, analysisVars>>

\* What the provider can answer to a batch request: nothing, every symbol
\* of the batch, all but one, or the batch plus a symbol of another batch.
Responses(b, k) ==
    {<<>>, ColumnsOf(Fields, b, k)}
    \cup (IF Len(b) > 1 THEN {ColumnsOf(Fields, Tail(b), k)} ELSE {})
    \cup (IF Range(tickers_list) \ Range(b) = {} THEN {}
          ELSE LET w == CHOOSE x \in Range(tickers_list) \ Range(b) :
                          \A y \in Range(tickers_list) \ Range(b) : x <= y
               IN  {ColumnsOf(Fields, b \o <<w>>, k)})

\* Lines 75-78 then 86: yf.download returns batch_data; a non-empty table
\* is kept; control reaches the sleep.
DownloadReturn ==
    /\ pc = "download"
    /\ \E batch_data \in Responses(batch, BatchNo(i)) :
          /\ all_data_frames' = IF batch_data # <<>>
                                THEN Append(all_data_frames, batch_data)
                                ELSE all_data_frames
          /\ log' = Append(log, [ev |-> "return", k |-> BatchNo(i),
                                 empty |-> batch_data = <<>>])
    /\ inflight' = inflight \ {BatchNo(i)}
    /\ pc' = "sleep"
    /\ UNCHANGED <<caller, tickers_input, tickers_list, i, batch, result, tabVars, seriesVars, refreshVars, analysisVars>>

\* DownloadRaise without the inner handler: the exception reaches the
\* outer handler of lines 101-103 and the run ends.
DownloadRaiseAborts ==
    /\ pc = "download"
    /\ inflight' = inflight \ {BatchNo(i)}
    /\ log' = Append(log, [ev |-> "raise", k |-> BatchNo(i)])
    /\ result' = None
    /\ pc' = "returned"
    /\ UNCHANGED <<caller, tickers_input, tickers_list, i, batch, all_data_frames, tabVars, seriesVars, refreshVars, analysisVars>>

\* Lines 80-83: yf.download raises; the handler prints and continues with
\* the next iteration.
DownloadRaise ==
    /\ pc = "download"
    /\ inflight' = inflight \ {BatchNo(i)}
    /\ log' = Append(log, [ev |-> "raise", k |-> BatchNo(i)])
    /\ i' = i + chunk_size
    /\ pc' = "loop"
    /\ UNCHANGED <<caller, tickers_input, tickers_list, batch, all_data_frames, result, tabVars, seriesVars, refreshVars, analysisVars>>

\* Line 86: time.sleep(2.0), then the next iteration.
Sleep ==
    /\ pc = "sleep"
    /\ log' = Append(log, [ev |-> "sleep", k |-> BatchNo(i)])
    /\ i' = i + chunk_size
    /\ pc' = "loop"
    /\ UNCHANGED <<caller, tickers_input, tickers_list, batch, all_data_frames, inflight, result, tabVars, seriesVars, refreshVars, analysisVars>>

\* Merge that reports failure unless every batch was kept.
MergeAllOrNothing ==
    /\ pc = "loop"
    /\ i >= Len(tickers_list)
    /\ result' = IF Len(all_data_frames) < BatchNo(Len(tickers_list) - 1) THEN None
                 ELSE Frame(DropDuplicated(Concat(all_data_frames), {}))
    /\ pc' = "returned"
    /\ UNCHANGED <<caller, tickers_input, tickers_list, i, batch, all_data_frames, inflight, log, tabVars, seriesVars, refreshVars, analysisVars>>

\* Lines 88-99: after the loop, None when no batch was kept, else the
\* concatenation with duplicated column labels removed.
Merge ==
    /\ pc = "loop"
    /\ i >= Len(tickers_list)
    /\ result' = IF all_data_frames = <<>> THEN None
                 ELSE Frame(DropDuplicated(Concat(all_data_frames), {}))
    /\ pc' = "returned"
    /\ UNCHANGED <<caller, tickers_input, tickers_list, i, batch, all_data_frames, inflight, log, tabVars, seriesVars, refreshVars, analysisVars>>

\* ---------------------------------------------------------- dashboard

\* An analysis record (only what the tab keeps of it), and no record.
Record(name) == [ok |-> TRUE, name |-> name]
NoRecord == [ok |-> FALSE, name |-> 0]

\* run_technical_analysis, lines 112-121 and 131-237, by outcome: nbars is
\* the number of rows of the slice that have a close (0 for an empty or
\* all-missing slice), fails whether the computation inside the try block
\* raises.
run_technical_analysis(nbars, fails, name) ==
    IF nbars = 0 THEN NoRecord
    ELSE IF nbars < MIN_BARS THEN NoRecord
    ELSE IF fails THEN NoRecord
    ELSE Record(name)

\* run_generic_analysis, lines 243-253 and 262-337, likewise.
run_generic_analysis(nbars, fails, name) ==
    IF nbars = 0 THEN NoRecord
    ELSE IF nbars < MIN_BARS THEN NoRecord
    ELSE IF fails THEN NoRecord
    ELSE Record(name)

BarCounts == {0, MIN_BARS - 1, MIN_BARS}

\* ticker in master_data['Close'] (lines 570, 674)
InMaster(ticker) ==
    \E j \in 1..Len(master_data.cols) :
        master_data.cols[j].field = "Close" /\ master_data.cols[j].sym = ticker

\* MasterCheck that stops unless every batch was kept.
MasterCheckStrict ==
    /\ pc = "returned"
    /\ caller = "dashboard"
    /\ master_data' = result
    /\ IF result = None \/ Len(all_data_frames) < BatchNo(Len(tickers_list) - 1)
       THEN pc' = "stopped" /\ UNCHANGED <<tab, pos>>
       ELSE pc' = "tab" /\ tab' = 1 /\ pos' = 1
    /\ UNCHANGED <<caller, tickers_input, tickers_list, i, batch, all_data_frames,
                   inflight, log, result, analysis_results, analysed, returned, seriesVars, refreshVars, analysisVars>>

\* Lines 507-511: the master fetch has returned; None stops the script.
MasterCheck ==
    /\ pc = "returned"
    /\ caller = "dashboard"
    /\ master_data' = result
    /\ IF result = None
       THEN pc' = "stopped" /\ UNCHANGED <<tab, pos>>
       ELSE pc' = "tab" /\ tab' = 1 /\ pos' = 1
    /\ UNCHANGED <<caller, tickers_input, tickers_list, i, batch, all_data_frames,
                   inflight, log, result, analysis_results, analysed, returned, seriesVars, refreshVars, analysisVars>>

\* TabAnalyse that leaves the loop when an analysis gives no record.
TabAnalyseStopsOnFailure ==
    /\ pc = "tab"
    /\ pos <= Len(Tabs[tab].ticker_dict)
    /\ LET ticker == Tabs[tab].ticker_dict[pos] IN
       /\ InMaster(ticker)
       /\ \E nbars \in BarCounts, fails \in BOOLEAN :
            LET analysis == IF Tabs[tab].kind = "technical"
                            THEN run_technical_analysis(nbars, fails, ticker)
                            ELSE run_generic_analysis(nbars, fails, ticker)
            IN /\ analysis_results' = IF analysis.ok
                                       THEN Append(analysis_results, analysis)
                                       ELSE analysis_results
               /\ returned' = IF analysis.ok THEN returned \cup {ticker} ELSE returned
               /\ pos' = IF analysis.ok THEN pos + 1 ELSE Len(Tabs[tab].ticker_dict) + 1
       /\ analysed' = analysed \cup {ticker}
    /\ UNCHANGED <<fetchVars, master_data, tab, seriesVars, refreshVars, analysisVars>>

\* Lines 570-577 / 674-680: the symbol is in the master table; its slice
\* is analysed and a record, if any, is kept.
TabAnalyse ==
    /\ pc = "tab"
    /\ pos <= Len(Tabs[tab].ticker_dict)
    /\ LET ticker == Tabs[tab].ticker_dict[pos] IN
       /\ InMaster(ticker)
       /\ \E nbars \in BarCounts, fails \in BOOLEAN :
            LET analysis == IF Tabs[tab].kind = "technical"
                            THEN run_technical_analysis(nbars, fails, ticker)
                            ELSE run_generic_analysis(nbars, fails, ticker)
            IN /\ analysis_results' = IF analysis.ok
                                       THEN Append(analysis_results, analysis)
                                       ELSE analysis_results
               /\ returned' = IF analysis.ok THEN returned \cup {ticker} ELSE returned
       /\ analysed' = analysed \cup {ticker}
    /\ pos' = pos + 1
    /\ UNCHANGED <<fetchVars, master_data, tab, seriesVars, refreshVars, analysisVars>>

\* Lines 578-579 / 681-682: the symbol is not in the master table.
TabSkip ==
    /\ pc = "tab"
    /\ pos <= Len(Tabs[tab].ticker_dict)
    /\ ~InMaster(Tabs[tab].ticker_dict[pos])
    /\ pos' = pos + 1
    /\ UNCHANGED <<fetchVars, master_data, tab, analysis_results, analysed, returned, seriesVars, refreshVars, analysisVars>>

\* Lines 581 ff. / 684 ff.: the loop is over, the table is displayed, and
\* the script goes on to the next tab.
TabEnd ==
    /\ pc = "tab"
    /\ pos > Len(Tabs[tab].ticker_dict)
    /\ IF tab < Len(Tabs)
       THEN /\ tab' = tab + 1
            /\ pos' = 1
            /\ pc' = "tab"
       ELSE /\ pc' = "done"
            /\ UNCHANGED <<tab, pos>>
    /\ analysis_results' = <<>>
    /\ analysed' = {}
    /\ returned' = {}
    /\ UNCHANGED <<caller, tickers_input, tickers_list, i, batch, all_data_frames,
                   inflight, log, result, master_data, seriesVars, refreshVars, analysisVars>>

Next ==
    \/ Enter
    \/ Request
    \/ DownloadReturn
    \/ DownloadRaise
    \/ Sleep
    \/ Merge
    \/ MasterCheck
    \/ TabAnalyse
    \/ TabSkip
    \/ TabEnd

Spec == Init /\ [][Next]_vars


\* ------------------------------------------------------ series fetcher

\* The calls the dashboard makes: fetch_data(symbol) (line 731), and
\* fetch_unadjusted_data(symbol, period) with a period of period_map
\* (lines 204-212) or "2y" (line 820).
SeriesSymbols == {1, 2}
SeriesCalls ==
    {<<"fetch_data", sym, "2y">> : sym \in SeriesSymbols}
    \cup {<<"fetch_unadjusted_data", 1, period>> : period \in {"1y", "2y"}}

SeriesNone == [none |-> TRUE, cols |-> <<>>, data |-> <<>>]
Series(cols, data) == [none |-> FALSE, cols |-> cols, data |-> data]

\* What yf.download can do for one symbol: raise, or return a table whose
\* column labels are flat (<<field>>) or a MultiIndex (<<field, symbol>>),
\* possibly with a repeated first level, or an empty table.  data names
\* the request the rows answer: symbol, auto_adjust, period, and the time.
ProviderAnswers(sym, auto_adjust, period, now) ==
    LET data == <<sym, auto_adjust, period, now>> IN
    { [raises |-> TRUE, multi |-> FALSE, labels |-> <<>>, data |-> data],
      [raises |-> FALSE, multi |-> FALSE, labels |-> <<>>, data |-> data],
      [raises |-> FALSE, multi |-> FALSE, labels |-> << <<"Close">>, <<"Low">> >>, data |-> data],
      [raises |-> FALSE, multi |-> TRUE,
       labels |-> << <<"Close", sym>>, <<"Low", sym>> >>, data |-> data],
      [raises |-> FALSE, multi |-> TRUE,
       labels |-> << <<"Close", sym>>, <<"Close", sym>>, <<"Low", sym>> >>, data |-> data] }

\* data.columns.get_level_values(0)
GetLevelValues0(labels) == [j \in 1..Len(labels) |-> <<labels[j][1]>>]

\* data.loc[:, ~data.columns.duplicated()]
RECURSIVE DropDuplicatedLabels(_, _)
DropDuplicatedLabels(labels, seen) ==
    IF labels = <<>> THEN <<>>
    ELSE IF Head(labels) \in seen
         THEN DropDuplicatedLabels(Tail(labels), seen)
         ELSE <<Head(labels)>> \o DropDuplicatedLabels(Tail(labels), seen \cup {Head(labels)})

\* The body without its try/except: a provider exception leaves the call.
FetchBodyNoHandler(answer) ==
    IF answer.raises
    THEN [propagated |-> TRUE, result |-> SeriesNone]
    ELSE IF answer.labels = <<>>
    THEN [propagated |-> FALSE, result |-> SeriesNone]
    ELSE LET flat == IF answer.multi THEN GetLevelValues0(answer.labels)
                     ELSE answer.labels
         IN  [propagated |-> FALSE,
              result |-> Series(DropDuplicatedLabels(flat, {}), answer.data)]

\* The body shared by fetch_data (lines 11-30) and fetch_unadjusted_data
\* (lines 38-59): what the call gives for a provider answer, and whether
\* an exception leaves the function.
FetchBody(answer) ==
    IF answer.raises
    THEN [propagated |-> FALSE, result |-> SeriesNone]
    ELSE IF answer.labels = <<>>
    THEN [propagated |-> FALSE, result |-> SeriesNone]
    ELSE LET flat == IF answer.multi THEN GetLevelValues0(answer.labels)
                     ELSE answer.labels
         IN  [propagated |-> FALSE,
              result |-> Series(DropDuplicatedLabels(flat, {}), answer.data)]

\* A key that leaves the period out.
CacheKeyNoPeriod(fn, sym, period) == <<fn, sym>>

\* st.cache_data keys an entry by the function and its arguments.
CacheKey(fn, sym, period) ==
    IF fn = "fetch_data" THEN <<fn, sym>> ELSE <<fn, sym, period>>

\* ttl="5m" on fetch_data, ttl="15m" on fetch_unadjusted_data.
CacheTTL(fn) == IF fn = "fetch_data" THEN TTL_ADJUSTED ELSE TTL_UNADJUSTED

\* The entry is served while its age is below the time-to-live.
Live(entry, fn, now) == now - entry.stored_at < CacheTTL(fn)

\* A call of a cached fetcher: a live entry under the call's key is returned
\* as stored; otherwise the body runs, asks the provider, and what it
\* returns replaces the entry (call records the call that stored it).
CachedCall(fn, sym, period, auto_adjust) ==
    LET key == CacheKey(fn, sym, period)
        hits == {e \in cache : e.key = key /\ Live(e, fn, clock)}
    IN  IF hits # {}
        THEN /\ \E e \in hits :
                  last' = [called |-> TRUE, fn |-> fn, sym |-> sym, period |-> period,
                           at |-> clock, requested |-> FALSE, outcome |-> "",
                           propagated |-> FALSE, result |-> e.value]
             /\ UNCHANGED cache
        ELSE \E answer \in ProviderAnswers(sym, auto_adjust, period, clock) :
               LET out == FetchBody(answer) IN
               /\ last' = [called |-> TRUE, fn |-> fn, sym |-> sym, period |-> period,
                           at |-> clock, requested |-> TRUE,
                           outcome |-> IF answer.raises THEN "raise"
                                       ELSE IF answer.labels = <<>> THEN "empty"
                                       ELSE "table",
                           propagated |-> out.propagated, result |-> out.result]
               /\ cache' = IF out.propagated THEN cache
                           ELSE {e \in cache : e.key # key}
                                \cup {[key |-> key, call |-> <<fn, sym, period>>,
                                      value |-> out.result, stored_at |-> clock]}

\* fetch_data(ticker_symbol): period "2y", auto_adjust=True.
fetch_data ==
    /\ \E call \in SeriesCalls :
          /\ call[1] = "fetch_data"
          /\ CachedCall("fetch_data", call[2], "2y", TRUE)
    /\ UNCHANGED <<fetchVars, tabVars, clock, refreshVars, analysisVars>>

\* fetch_unadjusted_data(ticker_symbol, period): auto_adjust=False.
fetch_unadjusted_data ==
    /\ \E call \in SeriesCalls :
          /\ call[1] = "fetch_unadjusted_data"
          /\ CachedCall("fetch_unadjusted_data", call[2], call[3], FALSE)
    /\ UNCHANGED <<fetchVars, tabVars, clock, refreshVars, analysisVars>>

\* Time passes between calls.
Tick ==
    /\ clock + TickStep <= MaxClock
    /\ clock' = clock + TickStep
    /\ UNCHANGED <<fetchVars, tabVars, cache, last, refreshVars, analysisVars>>

InitFetcher ==
    /\ caller = "harness"
    /\ tickers_input = <<>>
    /\ pc = "enter"
    /\ given = NoFrame
    /\ InitRest

NextFetcher ==
    \/ fetch_data
    \/ fetch_unadjusted_data
    \/ Tick

SpecFetcher == InitFetcher /\ [][NextFetcher]_vars

\* ------------------------------------------------------------ analysis
\* The analysis functions of the dashboard (run_technical_analysis,
\* run_generic_analysis) and of modules/analysis.py
\* (get_technical_analysis, get_generic_analysis).

\* A float cell: a number, NaN, or an infinity; Python's None where a
\* float is expected; the string "N/A"; and a key the dict does not have.
Num(v) == [k |-> "num", v |-> v]
NaN == [k |-> "nan", v |-> 0]
Inf == [k |-> "inf", v |-> 0]
PyNone == [k |-> "none", v |-> 0]
NA == [k |-> "n/a", v |-> 0]
Absent == [k |-> "absent", v |-> 0]

\* a > b and a < b on floats: False when either side is NaN.
Gt(a, b) == a.k = "num" /\ b.k = "num" /\ a.v > b.v
Lt(a, b) == a.k = "num" /\ b.k = "num" /\ a.v < b.v
\* pd.isna(x)
IsNa(x) == x.k \in {"nan", "none"}
\* isinstance(x, (int, float)): numpy.float64 is a float, NaN included.
IsFloat(x) == x.k \in {"num", "nan", "inf"}

\* n / d rounded to the nearest integer (d > 0).
Round(n, d) == (2 * n + d) \div (2 * d)

\* (a - b) / a: the change taken relative to the later value.
PctOfLatest(a, b, c) ==
    IF a.k # "num" \/ b.k # "num" THEN NaN
    ELSE IF a.v = 0 THEN (IF a.v = b.v THEN NaN ELSE Inf)
    ELSE Num(Round((a.v - b.v) * 10000, a.v))

\* (a - b) / c in float arithmetic, as f"{x:.2%}" shows it: hundredths of
\* a percent.  A zero divisor gives an infinity (NaN for 0/0) and no
\* exception; NaN propagates.
PctOf(a, b, c) ==
    IF a.k # "num" \/ b.k # "num" \/ c.k # "num" THEN NaN
    ELSE IF c.v = 0 THEN (IF a.v = b.v THEN NaN ELSE Inf)
    ELSE Num(Round((a.v - b.v) * 10000, c.v))

\* (a / b - 1) * 100 as f"{x:.2f}%" shows it: hundredths of a percent.
\* The quotient is taken first and 1 subtracted from it; a zero divisor
\* gives an infinity (NaN for 0/0), NaN propagates.
PctRatio(a, b) ==
    IF a.k # "num" \/ b.k # "num" THEN NaN
    ELSE IF b.v = 0 THEN (IF a.v = 0 THEN NaN ELSE Inf)
    ELSE Num(Round(a.v * 10000, b.v) - 10000)

\* data.dropna(subset=['Close'])
DropNa(data) == SelectSeq(data, LAMBDA b : b.Close.k = "num")
\* data.iloc[-k]
ILoc(data, k) == data[Len(data) + 1 - k]
\* data.tail(n)
TailRows(data, n) ==
    SubSeq(data, IF Len(data) > n THEN Len(data) - n + 1 ELSE 1, Len(data))
\* rows['Low'].isnull().all()
AllLowNull(rows) == \A j \in 1..Len(rows) : rows[j].Low.k # "num"
\* rows['Low'].min(): missing lows are skipped; NaN when none is left.
LowMin(rows) ==
    LET lows == {rows[j].Low.v : j \in {h \in 1..Len(rows) : rows[h].Low.k = "num"}}
    IN  IF lows = {} THEN NaN
        ELSE Num(CHOOSE x \in lows : \A y \in lows : x <= y)
\* data.loc[(data.index >= end - Timedelta(days)) & (data.index <= end)],
\* end = data.index.max()
DateWindow(data, days) ==
    LET end_date == CHOOSE d \in {data[j].date : j \in 1..Len(data)} :
                        \A j \in 1..Len(data) : data[j].date <= d
    IN  SelectSeq(data, LAMBDA b : b.date >= end_date - days /\ b.date <= end_date)

\* market_dashboard.py:415-420
swing_periods ==
    [label \in {"1 Yr", "6 Months", "3 Months", "1 Month"} |->
        CASE label = "1 Yr" -> 252
          [] label = "6 Months" -> 126
          [] label = "3 Months" -> 63
          [] label = "1 Month" -> 21]

\* Cloud label with a test that passes when the close is above either
\* span.
CloudLabelEitherSpan(close, a, b, in_cloud) ==
    IF Gt(close, a) \/ Gt(close, b) THEN "Bullish (Above Cloud)"
    ELSE IF Lt(close, a) /\ Lt(close, b) THEN "Bearish (Below Cloud)"
    ELSE in_cloud

\* The cloud label (market_dashboard.py:150-155, 283-288; analysis.py
\* 36-38); in_cloud is the text of the last branch.
CloudLabel(close, a, b, in_cloud) ==
    IF Gt(close, a) /\ Gt(close, b) THEN "Bullish (Above Cloud)"
    ELSE IF Lt(close, a) /\ Lt(close, b) THEN "Bearish (Below Cloud)"
    ELSE in_cloud

\* market_dashboard.py:158-165
tk_cross(Tenkan, Kijun) ==
    IF IsNa(Tenkan) \/ IsNa(Kijun) THEN "nan"
    ELSE IF Gt(Tenkan, Kijun) THEN "Bullish (Tenkan > Kijun)"
    ELSE "Bearish (Tenkan < Kijun)"

\* analysis.py:33-34
tk_cross_ts_ks(ITS_9, IKS_26) ==
    IF Gt(ITS_9, IKS_26) THEN "Bullish (TS above KS)" ELSE "Bearish (TS below KS)"

\* market_dashboard.py:168-171, analysis.py:40-41
ChikouLabel(data) ==
    IF Gt(ILoc(data, 1).Close, ILoc(data, 27).Close) THEN "Bullish" ELSE "Bearish"

\* RSI label with inclusive thresholds.
RsiLabelInclusive(rsi_val) ==
    [label |-> IF rsi_val.k = "num" /\ rsi_val.v >= RSI_OVERBOUGHT THEN "Overbought"
               ELSE IF rsi_val.k = "num" /\ rsi_val.v <= RSI_OVERSOLD THEN "Oversold"
               ELSE "Neutral",
     shown |-> rsi_val]

\* The RSI label and the value shown with it (market_dashboard.py
\* 175-181, 291-297; analysis.py 43-47, 135-138).
RsiLabel(rsi_val) ==
    [label |-> IF Gt(rsi_val, Num(RSI_OVERBOUGHT)) THEN "Overbought"
               ELSE IF Lt(rsi_val, Num(RSI_OVERSOLD)) THEN "Oversold"
               ELSE "Neutral",
     shown |-> rsi_val]

\* analysis.py:141-146
TrendLabel(price, sma, above, below) == IF Gt(price, sma) THEN above ELSE below

\* unadj_data['Low'].min() and unadj_data['Close'].iloc[-1] when the
\* unadjusted fetch gave a table with rows; otherwise the initial values.
UnadjLow(unadj, initial) ==
    IF unadj.none \/ unadj.bars = <<>> THEN initial ELSE LowMin(unadj.bars)
UnadjCurrent(unadj) ==
    IF unadj.none \/ unadj.bars = <<>> THEN PyNone ELSE ILoc(unadj.bars, 1).Close

\* No record: the function returned None.
NoneRow(fn) == [fn |-> fn, ok |-> FALSE]

\* run_technical_analysis, lines 131-234: the dict built from the cleaned
\* table, the indicator columns of its latest row, and the unadjusted
\* fetch.
analysis_technical(data, ind, unadj, period_label) ==
    LET latest == ILoc(data, 1)
        prev == ILoc(data, 2)
        period_data_adj == DateWindow(data, swing_periods[period_label])
        current_price_val == UnadjCurrent(unadj)
        unadj_low_val == UnadjLow(unadj, NaN)
    IN  [fn |-> "run_technical_analysis", ok |-> TRUE,
         adj_price |-> latest.Close,
         change |-> PctOf(latest.Close, prev.Close, prev.Close),
         weekly |-> IF Len(data) >= 6
                    THEN PctOf(latest.Close, ILoc(data, 6).Close, ILoc(data, 6).Close)
                    ELSE NA,
         cloud |-> CloudLabel(latest.Close, ind.SenkouA, ind.SenkouB, "Neutral (In Cloud)"),
         tk |-> tk_cross(ind.Tenkan, ind.Kijun),
         chikou |-> ChikouLabel(data),
         rsi |-> RsiLabel(ind.RSI_14),
         adj_low |-> IF period_data_adj = <<>> \/ AllLowNull(period_data_adj)
                     THEN NaN ELSE LowMin(period_data_adj),
         current_price |-> IF IsFloat(current_price_val) THEN current_price_val ELSE NA,
         unadj_low |-> unadj_low_val,
         from_low |-> IF IsFloat(current_price_val) /\ ~IsNa(unadj_low_val)
                         /\ unadj_low_val # Num(0)
                      THEN PctOf(current_price_val, unadj_low_val, unadj_low_val)
                      ELSE NA,
         trend |-> <<>>]

\* run_generic_analysis, lines 262-334.
analysis_generic(data, ind, unadj) ==
    LET latest == ILoc(data, 1)
        prev == ILoc(data, 2)
        week_ago == ILoc(data, 6)
        current_price_val == UnadjCurrent(unadj)
        unadj_low_52w_val == UnadjLow(unadj, PyNone)
    IN  [fn |-> "run_generic_analysis", ok |-> TRUE,
         adj_price |-> Absent,
         change |-> PctOf(latest.Close, prev.Close, prev.Close),
         weekly |-> PctOf(latest.Close, week_ago.Close, week_ago.Close),
         cloud |-> CloudLabel(latest.Close, ind.SenkouA, ind.SenkouB, "Neutral (In Cloud)"),
         tk |-> "",
         chikou |-> "",
         rsi |-> RsiLabel(ind.RSI_14),
         adj_low |-> Absent,
         current_price |-> IF IsFloat(current_price_val) THEN current_price_val ELSE NA,
         unadj_low |-> IF IsFloat(unadj_low_52w_val) THEN unadj_low_52w_val ELSE NA,
         from_low |-> IF IsFloat(current_price_val) /\ ~IsNa(unadj_low_52w_val)
                         /\ unadj_low_52w_val # Num(0)
                      THEN PctOf(current_price_val, unadj_low_52w_val, unadj_low_52w_val)
                      ELSE NA,
         trend |-> <<>>]

\* get_technical_analysis, analysis.py:25-100: the result dict.
result_technical(data, ind, unadj, swing_days) ==
    LET latest == ILoc(data, 1)
        prev == ILoc(data, 2)
        prev_week == ILoc(data, 6)
        swing_data == TailRows(data, swing_days)
        swing_low_price == LowMin(swing_data)
        current_price_val == UnadjCurrent(unadj)
        unadj_low_val == UnadjLow(unadj, PyNone)
    IN  [fn |-> "get_technical_analysis", ok |-> TRUE,
         adj_price |-> latest.Close,
         change |-> PctRatio(latest.Close, prev.Close),
         weekly |-> PctOf(latest.Close, prev_week.Close, prev_week.Close),
         cloud |-> CloudLabel(latest.Close, ind.SenkouA, ind.SenkouB, "Sideways (In Cloud)"),
         tk |-> tk_cross_ts_ks(ind.Tenkan, ind.Kijun),
         chikou |-> ChikouLabel(data),
         rsi |-> RsiLabel(ind.RSI_14),
         adj_low |-> swing_low_price,
         current_price |-> IF IsFloat(current_price_val) THEN current_price_val ELSE NA,
         unadj_low |-> IF IsFloat(unadj_low_val) THEN unadj_low_val ELSE NA,
         from_low |-> PctOf(latest.Close, swing_low_price, swing_low_price),
         trend |-> <<>>]

\* get_generic_analysis, analysis.py:124-183: the result dict.
result_generic(data, ind, unadj) ==
    LET latest == ILoc(data, 1)
        prev == ILoc(data, 2)
        prev_week == ILoc(data, 6)
        price == latest.Close
        current_price_val == UnadjCurrent(unadj)
        unadj_low_val == UnadjLow(unadj, PyNone)
    IN  [fn |-> "get_generic_analysis", ok |-> TRUE,
         adj_price |-> latest.Close,
         change |-> PctOf(latest.Close, prev.Close, prev.Close),
         weekly |-> PctOf(latest.Close, prev_week.Close, prev.Close),
         cloud |-> "",
         tk |-> "",
         chikou |-> "",
         rsi |-> RsiLabel(ind.RSI_14),
         adj_low |-> Absent,
         current_price |-> IF IsFloat(current_price_val) THEN current_price_val ELSE NA,
         unadj_low |-> IF IsFloat(unadj_low_val) THEN unadj_low_val ELSE NA,
         from_low |-> Absent,
         trend |-> << TrendLabel(price, ind.SMA_20, "Bullish (Above 20-SMA)",
                                 "Bearish (Below 20-SMA)"),
                      TrendLabel(price, ind.SMA_50, "Bullish (Above 50-SMA)",
                                 "Bearish (Below 50-SMA)"),
                      TrendLabel(price, ind.SMA_200, "Bullish (Above 200-SMA)",
                                 "Bearish (Below 200-SMA)") >>]

\* run_technical_analysis as a whole (market_dashboard.py:107-237): the
\* guards of lines 112-121 on the table with its missing closes dropped,
\* then the dict; g.fails says whether the indicator library or the try
\* block raises.
RunTechnical(g) ==
    LET data == DropNa(g.bars) IN
    IF run_technical_analysis(Len(data), g.fails, 1).ok
    THEN analysis_technical(data, g.ind, g.unadj, g.period_label)
    ELSE NoneRow("run_technical_analysis")

\* run_generic_analysis as a whole (market_dashboard.py:239-337).
RunGeneric(g) ==
    LET data == DropNa(g.bars) IN
    IF run_generic_analysis(Len(data), g.fails, 1).ok
    THEN analysis_generic(data, g.ind, g.unadj)
    ELSE NoneRow("run_generic_analysis")

\* get_technical_analysis as a whole (analysis.py:10-104): the fetched
\* table is used as it is; idxmin() of an all-missing window has no date
\* to format and the handler returns None.
get_technical_analysis(g) ==
    IF g.data_none THEN NoneRow("get_technical_analysis")
    ELSE IF Len(g.bars) < MIN_BARS THEN NoneRow("get_technical_analysis")
    ELSE IF g.fails \/ AllLowNull(TailRows(g.bars, swing_periods[g.period_label]))
    THEN NoneRow("get_technical_analysis")
    ELSE result_technical(g.bars, g.ind, g.unadj, swing_periods[g.period_label])

\* get_generic_analysis as a whole (analysis.py:108-187).
get_generic_analysis(g) ==
    IF g.data_none THEN NoneRow("get_generic_analysis")
    ELSE IF Len(g.bars) < MIN_BARS_GENERIC THEN NoneRow("get_generic_analysis")
    ELSE IF g.fails THEN NoneRow("get_generic_analysis")
    ELSE result_generic(g.bars, g.ind, g.unadj)

\* ---- inputs of the analysis functions

\* The day of the j-th trading day: five bars a week.
TradingDate(j) == 7 * ((j - 1) \div 5) + ((j - 1) % 5)

\* A daily table of n rows, oldest first.  The first `missing` rows have no
\* prices (the symbol was not yet listed when the others of its batch
\* were); c gives the closes of the latest bar, the bar before it and the
\* bar at offset -6, every other bar closing at 50; the dip-th most recent
\* bar (if any) made a low of 20, the others 40; lows_null blanks every low.
MakeBars(n, missing, c, dip, lows_null) ==
    [j \in 1..n |->
       LET back == n + 1 - j IN
       [date |-> TradingDate(j),
        Close |-> IF j <= missing THEN NaN
                  ELSE IF back = 1 THEN Num(c[1])
                  ELSE IF back = 2 THEN Num(c[2])
                  ELSE IF back = 6 THEN Num(c[3])
                  ELSE Num(50),
        Low |-> IF j <= missing \/ lows_null THEN NaN
                ELSE IF back = dip THEN Num(20)
                ELSE Num(40)]]

PeriodLabels == DOMAIN swing_periods
RowCounts == {MIN_BARS - 1, MIN_BARS, MIN_BARS + 1, MIN_BARS_GENERIC - 1, MIN_BARS_GENERIC}
Closes == {45, 50, 55}
BaseCloses == <<50, 55, 45>>
DipPositions == {1, 18, 21, 22, 50, 64, 127, 190}

\* Tables whose closes vary, and tables whose length and lows vary.
CloseTables ==
    {MakeBars(n, m, c, 0, FALSE) :
        n \in {MIN_BARS, MIN_BARS_GENERIC}, m \in 0..MaxMissing,
        c \in Closes \X Closes \X Closes}
LowTables ==
    {MakeBars(p[1], m, BaseCloses, p[2], FALSE) :
        p \in {q \in RowCounts \X (DipPositions \cup {0}) : q[2] <= q[1]},
        m \in 0..MaxMissing}
    \cup {MakeBars(n, m, BaseCloses, 0, TRUE) : n \in RowCounts, m \in 0..MaxMissing}
BaseTable == MakeBars(MIN_BARS_GENERIC, 0, BaseCloses, 0, FALSE)
\* A 55-row table that ends ..., 100, 110.
ExampleRows == 55
ExampleTable == MakeBars(ExampleRows, 0, <<110, 100, 50>>, 0, FALSE)

\* Indicator columns of the latest row, as the indicator library gives
\* them: levels around the close, or missing.
Levels == {NaN, Num(40), Num(45), Num(50), Num(55)}
RsiValues ==
    {NaN} \cup {Num(v) : v \in (RSI_OVERSOLD - 1)..(RSI_OVERSOLD + 1)}
          \cup {Num(v) : v \in (RSI_OVERBOUGHT - 1)..(RSI_OVERBOUGHT + 1)}
BaseInd == [Tenkan |-> Num(52), Kijun |-> Num(48), SenkouA |-> Num(45),
            SenkouB |-> Num(40), RSI_14 |-> Num(50), SMA_20 |-> Num(49),
            SMA_50 |-> Num(48), SMA_200 |-> Num(47)]
IndicatorRows ==
    {[BaseInd EXCEPT !.Tenkan = t, !.Kijun = k] : t \in Levels, k \in Levels}
    \cup {[BaseInd EXCEPT !.SenkouA = a, !.SenkouB = b] : a \in Levels, b \in Levels}
    \cup {[BaseInd EXCEPT !.RSI_14 = r] : r \in RsiValues}
    \cup {[BaseInd EXCEPT !.SMA_20 = x, !.SMA_50 = y, !.SMA_200 = z] :
             x \in Levels, y \in Levels, z \in Levels}

\* What fetch_unadjusted_data can give: None, or a table of one or two
\* rows (empty tables are turned into None by the fetcher).
UnadjBars ==
    {[Close |-> c, Low |-> l] : c \in {NaN, Num(66)}, l \in {NaN, Num(0), Num(44)}}
UnadjTables ==
    {[none |-> TRUE, bars |-> <<>>]}
    \cup {[none |-> FALSE, bars |-> <<b>>] : b \in UnadjBars}
    \cup {[none |-> FALSE, bars |-> <<[Close |-> Num(60), Low |-> l], b>>] :
             l \in {NaN, Num(0), Num(55)}, b \in UnadjBars}
BaseUnadj == [none |-> FALSE,
              bars |-> <<[Close |-> Num(60), Low |-> Num(55)],
                         [Close |-> Num(66), Low |-> Num(44)]>>]

Input(data_none, bars, period_label, ind, unadj, fails) ==
    [data_none |-> data_none, bars |-> bars, period_label |-> period_label,
     ind |-> ind, unadj |-> unadj, fails |-> fails]

\* The arguments the functions are applied to.
Inputs ==
    {Input(FALSE, bars, label, BaseInd, BaseUnadj, FALSE) :
        bars \in CloseTables \cup LowTables, label \in PeriodLabels}
    \cup {Input(FALSE, BaseTable, "1 Yr", ind, BaseUnadj, FALSE) : ind \in IndicatorRows}
    \cup {Input(FALSE, bars, "1 Yr", BaseInd, unadj, FALSE) :
             bars \in {MakeBars(MIN_BARS_GENERIC, 0, <<c, 50, 45>>, 0, FALSE) : c \in Closes},
             unadj \in UnadjTables}
    \cup {Input(FALSE, ExampleTable, "1 Yr", BaseInd, BaseUnadj, FALSE),
          Input(FALSE, BaseTable, "1 Yr", BaseInd, BaseUnadj, TRUE),
          Input(FALSE, <<>>, "1 Yr", BaseInd, BaseUnadj, FALSE),
          Input(TRUE, <<>>, "1 Yr", BaseInd, BaseUnadj, FALSE)}

\* One analysis function is applied to the given arguments.
Analysed(fn, out) ==
    /\ pc = "analysis"
    /\ row.fn = ""
    /\ given' = [given EXCEPT !.fn = fn]
    /\ row' = out
    /\ UNCHANGED <<fetchVars, tabVars, seriesVars, refreshVars>>

CallRunTechnical == Analysed("run_technical_analysis", RunTechnical(given))
CallRunGeneric == Analysed("run_generic_analysis", RunGeneric(given))
CallGetTechnical == Analysed("get_technical_analysis", get_technical_analysis(given))
CallGetGeneric == Analysed("get_generic_analysis", get_generic_analysis(given))

InitAnalysis ==
    /\ caller = "harness"
    /\ tickers_input = <<>>
    /\ pc = "analysis"
    /\ \E g \in Inputs :
          given = [fn |-> "", data_none |-> g.data_none, bars |-> g.bars,
                   period_label |-> g.period_label, ind |-> g.ind,
                   unadj |-> g.unadj, fails |-> g.fails]
    /\ InitRest

NextAnalysis ==
    \/ CallRunTechnical
    \/ CallRunGeneric
    \/ CallGetTechnical
    \/ CallGetGeneric

SpecAnalysis == InitAnalysis /\ [][NextAnalysis]_vars

\* ------------------------------------------------------ script passes
\* A dashboard session: Streamlit runs the script top to bottom on every
\* interaction; the decorated functions keep their results in st.cache_data
\* between passes.

\* What the sheet loaders (lines 15-27, 29-43; twins, one entry stands for
\* both) can give: the number of symbols the sheets add to the universe,
\* 0 when the load raised and {} was returned.
MaxSheetSymbols == 1
SheetLoads == 0..MaxSheetSymbols

SheetLive(e, now) == now - e.stored_at < TTL_CATALOGUE
MasterLive(e, now) == now - e.stored_at < TTL_MASTER

\* Lines 489-505: the sheet dictionaries are loaded (through their cache)
\* and master_ticker_list is built from the static and the sheet symbols.
LoadCatalogue ==
    /\ pc = "script"
    /\ LET hits == {e \in sheet_cache : SheetLive(e, clock)} IN
       IF hits # {}
       THEN /\ \E e \in hits :
                 tickers_input' = InputList(Cardinality(StaticTickers) + e.value, 0)
            /\ run' = [run EXCEPT !.sheet_hit = TRUE]
            /\ UNCHANGED sheet_cache
       ELSE /\ \E n \in SheetLoads :
                 /\ sheet_cache' = {[value |-> n, stored_at |-> clock]}
                 /\ tickers_input' = InputList(Cardinality(StaticTickers) + n, 0)
            /\ run' = [run EXCEPT !.sheet_hit = FALSE]
    /\ pc' = "call"
    /\ UNCHANGED <<caller, tickers_list, i, batch, all_data_frames, inflight, log,
                   result, tabVars, seriesVars, master_cache, analysisVars>>

\* Line 507 through the decorator of line 45: a live entry stored for
\* this argument is returned as it is and the body does not run;
\* otherwise the body is entered.
CallMaster ==
    /\ pc = "call"
    /\ LET hits == {e \in master_cache : e.key = tickers_input /\ MasterLive(e, clock)} IN
       /\ run' = [run EXCEPT !.had_live = hits # {}, !.hit = hits # {}]
       /\ IF hits # {}
          THEN /\ \E e \in hits : result' = e.value
               /\ pc' = "returned"
          ELSE /\ pc' = "enter"
               /\ UNCHANGED result
    /\ UNCHANGED <<caller, tickers_input, tickers_list, i, batch, all_data_frames,
                   inflight, log, tabVars, seriesVars, master_cache, sheet_cache,
                   analysisVars>>

\* The call of line 507 returns: a value the body computed is stored under
\* the call's argument (None included); lines 508-510 stop the script on
\* None.
MasterReturn ==
    /\ pc = "returned"
    /\ caller = "dashboard"
    /\ master_cache' = IF run.hit THEN master_cache
                       ELSE {e \in master_cache : e.key # tickers_input}
                            \cup {[key |-> tickers_input, value |-> result,
                                   stored_at |-> clock]}
    /\ master_data' = result
    /\ IF result = None
       THEN pc' = "stopped" /\ UNCHANGED <<tab, pos>>
       ELSE pc' = "tab" /\ tab' = 1 /\ pos' = 1
    /\ UNCHANGED <<caller, tickers_input, tickers_list, i, batch, all_data_frames,
                   inflight, log, result, analysis_results, analysed, returned,
                   seriesVars, sheet_cache, run, analysisVars>>

\* Line 820 of the individual lookup at the end of the script: the typed
\* symbol's unadjusted series is fetched through its cache.
Lookup ==
    /\ pc = "done"
    /\ CachedCall("fetch_unadjusted_data", 1, "2y", FALSE)
    /\ pc' = "end"
    /\ UNCHANGED <<caller, tickers_input, tickers_list, i, batch, all_data_frames,
                   inflight, log, result, tabVars, clock, refreshVars, analysisVars>>

\* The minutes that pass before the next interaction.
Elapsed == {0, TTL_CATALOGUE, TTL_MASTER}

\* A new pass starts from the top of the script with fresh script
\* variables, dt minutes later.
NewPass(dt, refreshed) ==
    /\ pc \in {"stopped", "done", "end"}
    /\ run.pass < MaxPasses
    /\ clock + dt <= MaxSessionClock
    /\ clock' = clock + dt
    /\ run' = [pass |-> run.pass + 1, refreshed |-> refreshed, sheet_hit |-> FALSE,
               had_live |-> FALSE, hit |-> FALSE,
               prev_hit_none |-> run.hit /\ result = None]
    /\ pc' = "script"
    /\ tickers_input' = <<>>
    /\ tickers_list' = <<>>
    /\ i' = 0
    /\ batch' = <<>>
    /\ all_data_frames' = <<>>
    /\ inflight' = {}
    /\ log' = <<>>
    /\ result' = None
    /\ master_data' = None
    /\ tab' = 0
    /\ pos' = 0
    /\ analysis_results' = <<>>
    /\ analysed' = {}
    /\ returned' = {}
    /\ last' = NoCall
    /\ UNCHANGED <<caller, analysisVars>>

\* An interaction other than the refresh button: the script reruns and
\* the caches stay.
Rerun ==
    /\ \E dt \in Elapsed : NewPass(dt, FALSE)
    /\ UNCHANGED <<cache, master_cache, sheet_cache>>

\* Refresh that clears the master table's cache only.
RefreshMasterOnly ==
    /\ \E dt \in Elapsed : NewPass(dt, TRUE)
    /\ master_cache' = {}
    /\ UNCHANGED <<cache, sheet_cache>>

\* Lines 427-429: the "Refresh All Data" button is pressed;
\* st.cache_data.clear() empties the cache of every decorated function and
\* st.rerun() starts the script again.
Refresh ==
    /\ \E dt \in Elapsed : NewPass(dt, TRUE)
    /\ master_cache' = {}
    /\ sheet_cache' = {}
    /\ cache' = {}

InitRefresh ==
    /\ caller = "dashboard"
    /\ tickers_input = <<>>
    /\ pc = "script"
    /\ given = NoFrame
    /\ InitRest

NextRefresh ==
    \/ LoadCatalogue
    \/ CallMaster
    \/ Enter
    \/ Request
    \/ DownloadReturn
    \/ DownloadRaise
    \/ Sleep
    \/ Merge
    \/ MasterReturn
    \/ TabAnalyse
    \/ TabSkip
    \/ TabEnd
    \/ Lookup
    \/ Rerun
    \/ Refresh

SpecRefresh == InitRefresh /\ [][NextRefresh]_vars


\* ---------------------------------------------------- slice and fetch
\* The series a tab gets for a symbol out of the master table
\* (fetch_master_data, then the slice of render_technical_tab) and the
\* series fetch_data gives for the same symbol, from the same provider data.

MaxBatch == 2
MaxDates == 3
Dates == 1..MaxDates
BatchTickers == 1..MaxBatch

\* The provider's close of a symbol on one of its trading dates.
Quote(t, d, auto_adjust) ==
    Num(IF auto_adjust THEN 100 * t + d ELSE 100 * t + d + 50)

\* yf.download(tickers, period="2y", auto_adjust=...): one table with one
\* date index for all its symbols and a (field, symbol) column per symbol.
\* The index holds the dates of any of the symbols ("outer") or the dates
\* all of them have ("inner"); a symbol has NaN on a date it did not trade.
download(tickers, cal, how, auto_adjust) ==
    LET index == IF how = "outer" THEN UNION {cal[t] : t \in tickers}
                 ELSE {d \in Dates : \A t \in tickers : d \in cal[t]}
    IN  [none |-> FALSE, index |-> index, columns |-> tickers,
         Close |-> [t \in tickers |->
                       [d \in index |-> IF d \in cal[t] THEN Quote(t, d, auto_adjust)
                                        ELSE NaN]]]

NoTable == [none |-> TRUE, index |-> {}, columns |-> {}, Close |-> <<>>]

\* pd.concat(all_data_frames, axis=1) and the removal of duplicated
\* columns: every date of any frame, every column once (the first frame
\* that has it), NaN where the column's frame lacks the date.
final_df(frames) ==
    LET index == UNION {frames[j].index : j \in 1..Len(frames)}
        columns == UNION {frames[j].columns : j \in 1..Len(frames)}
        First(t) == CHOOSE j \in 1..Len(frames) :
                       /\ t \in frames[j].columns
                       /\ \A h \in 1..(j - 1) : t \notin frames[h].columns
    IN  [none |-> FALSE, index |-> index, columns |-> columns,
         Close |-> [t \in columns |->
                       [d \in index |-> IF d \in frames[First(t)].index
                                        THEN frames[First(t)].Close[t][d]
                                        ELSE NaN]]]

\* fetch_master_data for a universe of at most chunk_size symbols: one
\* batch, kept unless empty; None when no frame was kept.
MasterTable(g) ==
    LET batch_data == download(g.tickers, g.cal, g.how, TRUE)
        frames == IF batch_data.index # {} THEN <<batch_data>> ELSE <<>>
    IN  IF frames = <<>> THEN NoTable ELSE final_df(frames)

\* The rows of one symbol's column, in index order.
RowsOf(index, column) ==
    LET sorted == SelectSeq([d \in 1..MaxDates |-> d], LAMBDA d : d \in index)
    IN  [j \in 1..Len(sorted) |-> [date |-> sorted[j], Close |-> column[sorted[j]]]]

\* master_data.loc[:, (slice(None), ticker)] with the symbol level dropped.
ticker_data(master, ticker) == RowsOf(master.index, master.Close[ticker])

\* fetch_data(ticker_symbol): the symbol's own table with flat columns,
\* None when it is empty.
SingleFetch(g, ticker) ==
    LET data == download({ticker}, g.cal, g.how, TRUE)
    IN  IF data.index = {} THEN [none |-> TRUE, bars |-> <<>>]
        ELSE [none |-> FALSE, bars |-> RowsOf(data.index, data.Close[ticker])]

RoundTripStep(out) ==
    /\ pc = "roundtrip"
    /\ row.fn = ""
    /\ row' = out
    /\ UNCHANGED <<fetchVars, tabVars, seriesVars, refreshVars, given>>

\* Lines 512-515: without a master table the script stops.
MasterAbsent ==
    /\ MasterTable(given).none
    /\ RoundTripStep([fn |-> "stop", ok |-> FALSE])

\* Lines 569-574: a symbol of the tab that is in the master table is sliced.
SliceTicker ==
    \E t \in given.tickers :
       /\ ~MasterTable(given).none
       /\ t \in MasterTable(given).columns
       /\ RoundTripStep([fn |-> "ticker_data", ok |-> TRUE, ticker |-> t,
                         bars |-> ticker_data(MasterTable(given), t)])

\* fetch_data is called for a symbol.
FetchTicker ==
    \E t \in given.tickers :
       LET data == SingleFetch(given, t)
       IN  RoundTripStep([fn |-> "fetch_data", ok |-> ~data.none, ticker |-> t,
                          bars |-> data.bars])

InitRoundTrip ==
    /\ caller = "harness"
    /\ tickers_input = <<>>
    /\ pc = "roundtrip"
    \* Provider data: every symbol has at least one bar.
    /\ \E ts \in (SUBSET BatchTickers) \ {{}} :
          \E c \in [BatchTickers -> (SUBSET Dates) \ {{}}] :
             \E h \in {"outer", "inner"} :
                given = [tickers |-> ts, cal |-> c, how |-> h]
    /\ InitRest

NextRoundTrip ==
    \/ MasterAbsent
    \/ SliceTicker
    \/ FetchTicker

SpecRoundTrip == InitRoundTrip /\ [][NextRoundTrip]_vars


\* ---------------------------------------------------- weekly resampler
\* resample_to_weekly of tests/test_analysis.py.  A date is a day number,
\* day 0 a Monday; a daily table is a sequence of rows in date order.

MaxWeek == 2
MaxBars == 3
FRIDAY == 4
\* Days a table can have rows on: a Monday, a Friday and a Saturday of
\* each week.
DayOffsets == {0, FRIDAY, FRIDAY + 1}
TradingDays == {7 * w + o : w \in 0..MaxWeek, o \in DayOffsets}

\* The values of a row: two bars, and a row without values.
BarKinds ==
    {[Open |-> Num(10), High |-> Num(12), Low |-> Num(9), Close |-> Num(11),
      Volume |-> Num(5)],
     [Open |-> Num(20), High |-> Num(25), Low |-> Num(15), Close |-> Num(22),
      Volume |-> Num(7)],
     [Open |-> NaN, High |-> NaN, Low |-> NaN, Close |-> NaN, Volume |-> NaN]}

DailyTable(days, kind) ==
    LET sorted == SelectSeq([j \in 1..(7 * MaxWeek + 7) |-> j - 1], LAMBDA d : d \in days)
    IN  [j \in 1..Len(sorted) |->
            [date |-> sorted[j], Open |-> kind[sorted[j]].Open,
             High |-> kind[sorted[j]].High, Low |-> kind[sorted[j]].Low,
             Close |-> kind[sorted[j]].Close, Volume |-> kind[sorted[j]].Volume]]

\* The sets of days a table of at most MaxBars rows can have.
DaySets == {s \in SUBSET TradingDays : Cardinality(s) <= MaxBars}

\* 'W-FRI': the Friday that closes the week of a day (Saturday to Friday).
WeekEnd(d) == d + ((FRIDAY + 7 - (d % 7)) % 7)

\* The values of a column that are not missing, in row order.
Valued(rows, field) ==
    SelectSeq([j \in 1..Len(rows) |-> rows[j][field]], LAMBDA x : x.k = "num")
\* 'first', 'last', 'max', 'min': missing values are skipped, NaN when
\* nothing is left; 'sum': missing values are skipped, 0 when nothing is left.
AggFirst(xs) == IF xs = <<>> THEN NaN ELSE xs[1]
\* The earliest value instead of the latest.
AggEarliest(xs) == IF xs = <<>> THEN NaN ELSE xs[1]
AggLast(xs) == IF xs = <<>> THEN NaN ELSE xs[Len(xs)]
AggMax(xs) ==
    IF xs = <<>> THEN NaN
    ELSE xs[CHOOSE j \in 1..Len(xs) : \A h \in 1..Len(xs) : xs[h].v <= xs[j].v]
AggMin(xs) ==
    IF xs = <<>> THEN NaN
    ELSE xs[CHOOSE j \in 1..Len(xs) : \A h \in 1..Len(xs) : xs[h].v >= xs[j].v]
RECURSIVE SumOf(_)
SumOf(xs) == IF xs = <<>> THEN 0 ELSE xs[1].v + SumOf(Tail(xs))
AggSum(xs) == Num(SumOf(xs))

\* daily_df.resample('W-FRI').agg({...}): one row per week from the week
\* of the first row to the week of the last row, labelled with the week's
\* Friday, whether or not the week has rows.
weekly_df(daily_df) ==
    LET first_label == WeekEnd(daily_df[1].date)
        last_label == WeekEnd(daily_df[Len(daily_df)].date)
        weeks == (last_label - first_label) \div 7 + 1
        Bucket(label) ==
            SelectSeq(daily_df, LAMBDA b : b.date > label - 7 /\ b.date <= label)
    IN  [w \in 1..weeks |->
            LET label == first_label + 7 * (w - 1)
                rows == Bucket(label)
            IN  [date |-> label,
                 Open |-> AggFirst(Valued(rows, "Open")),
                 High |-> AggMax(Valued(rows, "High")),
                 Low |-> AggMin(Valued(rows, "Low")),
                 Close |-> AggLast(Valued(rows, "Close")),
                 Volume |-> AggSum(Valued(rows, "Volume"))]]

\* resample_to_weekly(daily_df), lines 7-13.
resample_to_weekly(g) ==
    IF g.none \/ g.bars = <<>> THEN [fn |-> "resample_to_weekly", ok |-> FALSE, bars |-> <<>>]
    ELSE [fn |-> "resample_to_weekly", ok |-> TRUE, bars |-> weekly_df(g.bars)]

CallResample ==
    /\ pc = "weekly"
    /\ row.fn = ""
    /\ row' = resample_to_weekly(given)
    /\ UNCHANGED <<fetchVars, tabVars, seriesVars, refreshVars, given>>

InitWeekly ==
    /\ caller = "harness"
    /\ tickers_input = <<>>
    /\ pc = "weekly"
    /\ \/ given = [none |-> TRUE, bars |-> <<>>]
       \/ \E days \in DaySets : \E kind \in [days -> BarKinds] :
             given = [none |-> FALSE, bars |-> DailyTable(days, kind)]
    /\ InitRest

NextWeekly == CallResample

SpecWeekly == InitWeekly /\ [][NextWeekly]_vars


\* ---------------------------------------------------- individual lookup
\* The individual analysis at the end of the script (lines 711-824) for an
\* entered symbol.  A table is given by its number of rows and the number
\* of them without a close; the indicator library (pandas_ta, not part of
\* the program) appends its columns, appends nothing, or raises.

LookupRows == {0, 1, 2, MIN_BARS - 1, MIN_BARS}
LibraryOutcomes == {"columns", "nocolumns", "raises"}

LookupInputs ==
    {g \in [in_list : BOOLEAN, in_master : BOOLEAN, fetched_none : BOOLEAN,
            rows : LookupRows, missing : 0..MaxMissing, lib : LibraryOutcomes] :
        /\ g.missing <= g.rows
        /\ g.in_master => g.in_list /\ g.rows >= 1
        /\ g.fetched_none => g.rows = 0 /\ ~g.in_list}

Shown(outcome, line) ==
    [fn |-> "individual_analysis", ok |-> outcome = "analysis", outcome |-> outcome,
     line |-> line]

\* Lines 711-824, in statement order; an exception outside a try block
\* ends the pass.
individual_analysis(g) ==
    LET usable == g.rows - g.missing
    IN  IF g.in_list /\ ~g.in_master THEN Shown("KeyError", 718)
        ELSE IF g.in_list /\ g.lib = "raises" THEN Shown("LibraryError", 722)
        ELSE IF ~g.in_list /\ ~g.fetched_none /\ g.rows > 0 /\ g.lib = "raises"
             THEN Shown("LibraryError", 734)
        ELSE IF (~g.in_list /\ g.fetched_none) \/ g.rows = 0 THEN Shown("error", 742)
        ELSE IF usable = 0 THEN Shown("error", 747)
        ELSE IF usable < 2 THEN Shown("IndexError", 764)
        ELSE IF g.lib = "nocolumns" THEN Shown("KeyError", 803)
        ELSE Shown("analysis", 820)

IndividualAnalysis ==
    /\ pc = "lookup"
    /\ row.fn = ""
    /\ row' = individual_analysis(given)
    /\ UNCHANGED <<fetchVars, tabVars, seriesVars, refreshVars, given>>

InitLookup ==
    /\ caller = "harness"
    /\ tickers_input = <<>>
    /\ pc = "lookup"
    /\ given \in LookupInputs
    /\ InitRest

NextLookup == IndividualAnalysis

SpecLookup == InitLookup /\ [][NextLookup]_vars


\* -------------------------------------------------------------- claims

Requests == SelectSeq(log, LAMBDA e : e.ev = "request")
Sleeps == SelectSeq(log, LAMBDA e : e.ev = "sleep")
\* Batch requests that returned a non-empty table.
Succeeded == {j \in 1..Len(log) : log[j].ev = "return" /\ ~log[j].empty}
\* Batch requests that raised or returned an empty table.
Failed == {j \in 1..Len(log) : log[j].ev = "raise" \/ (log[j].ev = "return" /\ log[j].empty)}
DistinctTickers == Range(tickers_input)
\* ceil(n / chunk_size)
NumBatches(n) == (n + chunk_size - 1) \div chunk_size
FetchReturned == pc \notin {"enter", "loop", "download", "sleep"}

\* C1: batch requests are issued one at a time: at most one is outstanding
\* at any moment, every request is made with threads=False, and a request
\* is issued only after every earlier request has returned or raised.
C1_SerialRequests ==
    /\ Cardinality(inflight) <= 1
    /\ \A j \in 1..Len(log) :
         log[j].ev = "request" =>
           /\ log[j].threads = FALSE
           /\ \A h \in 1..(j - 1) :
                log[h].ev = "request" =>
                  \E m \in (h + 1)..(j - 1) :
                     log[m].ev \in {"return", "raise"} /\ log[m].k = log[h].k

\* C1 witness: the second batch's request is outstanding.
C1_Witness == inflight = {2} /\ Len(Requests) = 2

\* C2 (as claimed): a sleep follows every batch request, whatever its
\* outcome: between two requests there is a sleep, and a finished run of B
\* batches has slept B times.
C2_SleepAfterEveryBatch ==
    /\ \A h \in 1..Len(log), j \in 1..Len(log) :
         (h < j /\ log[h].ev = "request" /\ log[j].ev = "request") =>
            \E m \in (h + 1)..(j - 1) : log[m].ev = "sleep"
    /\ FetchReturned => Len(Sleeps) = Len(Requests)

\* C3: every batch of the partition is requested exactly once, in order,
\* whatever the earlier batches did: the k-th request is for the k-th
\* chunk of the list, and when the function returns every chunk has been
\* requested.
C3_EveryBatchOnceInOrder ==
    LET reqs == Requests IN
    /\ \A j \in 1..Len(reqs) :
         /\ reqs[j].k = j
         /\ reqs[j].batch =
              SubSeq(tickers_list, (j - 1) * chunk_size + 1,
                     Min(j * chunk_size, Len(tickers_list)))
    /\ pc = "returned" => Len(reqs) = NumBatches(Len(tickers_list))

\* C3 witness: a finished run of two batches whose first batch raised and
\* whose second returned nothing.
C3_Witness ==
    /\ pc = "returned"
    /\ Len(Requests) = 2
    /\ \E h \in Failed, j \in Failed : log[h].ev = "raise" /\ log[j].ev = "return"

C5_DedupAndPartition ==
    pc = "returned" =>
       LET reqs == Requests IN
       /\ Len(reqs) = NumBatches(Cardinality(DistinctTickers))
       /\ \A j \in 1..Len(reqs) :
            /\ Len(reqs[j].batch) <= chunk_size
            /\ j < Len(reqs) => Len(reqs[j].batch) = chunk_size
       /\ \A t \in DistinctTickers :
            Cardinality({<<j, m>> \in (1..Len(reqs)) \X (1..chunk_size) :
                           m <= Len(reqs[j].batch) /\ reqs[j].batch[m] = t}) = 1

\* C5 witness: 12 distinct symbols, one of them passed twice, fetched in
\* two batches of 10 and 2.
C5_Witness ==
    /\ pc = "returned"
    /\ Len(tickers_input) = 13
    /\ Cardinality(DistinctTickers) = 12
    /\ Len(Requests) = 2
    /\ Len(Requests[1].batch) = 10
    /\ Len(Requests[2].batch) = 2

\* The (field, symbol) keys a kept batch table carries.
KeysOf(frame) == {Key(frame[j]) : j \in 1..Len(frame)}

\* C6: the merged table returned has no two columns with the same (field, symbol)
\* key, holds every key that a successful batch returned, and for a key
\* that several batches returned holds the column of the first of them.
C6_MergedColumnsUnique ==
    (pc = "returned" /\ result # None) =>
       /\ \A a \in 1..Len(result.cols), b \in 1..Len(result.cols) :
            Key(result.cols[a]) = Key(result.cols[b]) => a = b
       /\ \A f \in 1..Len(all_data_frames) :
            \A key \in KeysOf(all_data_frames[f]) :
               \E a \in 1..Len(result.cols) :
                  /\ Key(result.cols[a]) = key
                  /\ \A g \in 1..Len(all_data_frames) :
                       key \in KeysOf(all_data_frames[g]) =>
                          result.cols[a].src <= all_data_frames[g][1].src
       /\ \A a \in 1..Len(result.cols) :
            \E f \in 1..Len(all_data_frames) : Key(result.cols[a]) \in KeysOf(all_data_frames[f])

\* C6 witness: a merged table built from two batch tables that share a key.
C6_Witness ==
    /\ pc = "returned"
    /\ result # None
    /\ Len(all_data_frames) = 2
    /\ KeysOf(all_data_frames[1]) \cap KeysOf(all_data_frames[2]) # {}

C9_FetcherNeverRaises ==
    last.called =>
       /\ ~last.propagated
       /\ last.requested =>
            /\ last.outcome \in {"raise", "empty"} => last.result = SeriesNone
            /\ last.outcome = "table" =>
                 /\ ~last.result.none
                 /\ last.result.cols # <<>>
                 /\ \A a \in 1..Len(last.result.cols), b \in 1..Len(last.result.cols) :
                      /\ Len(last.result.cols[a]) = 1
                      /\ last.result.cols[a] = last.result.cols[b] => a = b

\* C9 witness: the provider raised on an unadjusted fetch, which gave None.
C9_Witness ==
    /\ last.called
    /\ last.fn = "fetch_unadjusted_data"
    /\ last.outcome = "raise"
    /\ last.result = SeriesNone

\* C10: a call whose own earlier result is younger than the time-to-live
\* (5 minutes adjusted, 15 unadjusted) returns that result and asks the
\* provider nothing; any other call asks the provider afresh; and a series
\* returned is always one fetched for the call's own symbol, adjustment
\* and period.
C10_CachedPerKey ==
    [][ (clock' = clock /\ last'.called) =>
          LET own == <<last'.fn, last'.sym, last'.period>>
              ttl == IF last'.fn = "fetch_data" THEN 5 ELSE 15
              prior == {e \in cache : e.call = own /\ clock - e.stored_at < ttl}
              tag == <<last'.sym, last'.fn = "fetch_data", last'.period>>
          IN  /\ prior # {} =>
                   /\ ~last'.requested
                   /\ cache' = cache
                   /\ \A e \in prior : last'.result = e.value
              /\ prior = {} =>
                   /\ last'.requested
                   /\ ~last'.result.none => last'.result.data = tag \o <<clock>>
              /\ ~last'.result.none => SubSeq(last'.result.data, 1, 3) = tag
      ]_vars

\* C10 witness: an unadjusted series fetched earlier is served from the
\* cache 10 minutes later.
C10_Witness ==
    /\ last.called
    /\ last.fn = "fetch_unadjusted_data"
    /\ ~last.requested
    /\ ~last.result.none
    /\ last.at = last.result.data[4] + 10

\* C11: the refresh button empties every cache (master table, series,
\* catalogue), so a pass begun by a refresh is served nothing stored
\* earlier and requests every batch of the universe again; and a pass that
\* finds a live entry for its ticker list, a failed (None) or partial
\* result included, returns that entry and sends no request.
C11_RefreshClearsAndNoRetryWhileLive ==
    /\ (pc = "script" /\ run.refreshed) =>
          (master_cache = {} /\ sheet_cache = {} /\ cache = {})
    /\ run.refreshed =>
          /\ ~run.sheet_hit
          /\ ~run.hit
          /\ last.called => last.requested
    /\ (run.refreshed /\ pc \in {"returned", "stopped", "tab", "done", "end"}) =>
          LET reqs == Requests IN
          /\ Len(reqs) = NumBatches(Cardinality(DistinctTickers))
          /\ \A j \in 1..Len(reqs) : reqs[j].k = j
    /\ (run.had_live /\ pc \notin {"script", "call"}) =>
          /\ run.hit
          /\ Requests = <<>>
          /\ \E e \in master_cache :
                e.key = tickers_input /\ MasterLive(e, clock) /\ e.value = result

\* C11 witness: a failed master fetch was served from the cache without a
\* retry, then the button was pressed and the pass after it requested the
\* universe again and got a table.
C11_Witness ==
    /\ run.refreshed
    /\ run.prev_hit_none
    /\ pc = "tab"
    /\ Len(Requests) = 1
    /\ result # None

\* The table an analysis function computes on: the dashboard functions
\* drop the rows without a close, modules/analysis.py does not.
Bars == DropNa(given.bars)
TechnicalFns == {"run_technical_analysis", "get_technical_analysis"}
GenericFns == {"run_generic_analysis", "get_generic_analysis"}

\* C12 (as claimed): a technical analysis gives a record only for a
\* series of at least 30 bars, counted after the rows with a missing close
\* are dropped; a shorter series gives None.
C12_SkipBelowThirtyBars ==
    row.fn \in TechnicalFns =>
       /\ Len(Bars) < MIN_BARS => ~row.ok
       /\ row.ok => Len(Bars) >= MIN_BARS

\* C13 (as claimed): the generic analysis gives a record only for a
\* series of at least 200 rows, and the record carries the three trend
\* labels, Bullish when the price is above the 20/50/200-period SMA and
\* Bearish otherwise.
C13_GenericNeedsTwoHundredBars ==
    (row.fn \in GenericFns /\ row.ok) =>
       /\ Len(given.bars) >= MIN_BARS_GENERIC
       /\ LET price == ILoc(Bars, 1).Close IN
          row.trend =
             << IF Gt(price, given.ind.SMA_20) THEN "Bullish (Above 20-SMA)"
                ELSE "Bearish (Below 20-SMA)",
                IF Gt(price, given.ind.SMA_50) THEN "Bullish (Above 50-SMA)"
                ELSE "Bearish (Below 50-SMA)",
                IF Gt(price, given.ind.SMA_200) THEN "Bullish (Above 200-SMA)"
                ELSE "Bearish (Below 200-SMA)" >>

\* The function named fn applied to the arguments g.
ApplyFn(fn, g) ==
    CASE fn = "run_technical_analysis" -> RunTechnical(g)
      [] fn = "run_generic_analysis" -> RunGeneric(g)
      [] fn = "get_technical_analysis" -> get_technical_analysis(g)
      [] fn = "get_generic_analysis" -> get_generic_analysis(g)
\* The fields of a record the claim ties to the adjusted series, and those
\* it ties to the unadjusted series.
AdjustedGroup(r) ==
    <<r.adj_price, r.change, r.weekly, r.cloud, r.tk, r.chikou, r.rsi, r.adj_low>>
UnadjustedGroup(r) == <<r.current_price, r.unadj_low, r.from_low>>
\* Other adjusted tables to compare with.
OtherTables ==
    {MakeBars(MIN_BARS, 0, c, dip, FALSE) : c \in {BaseCloses, <<55, 50, 45>>}, dip \in {0, 1}}

\* C14 (as claimed): the two series are never blended: with the adjusted
\* table and indicators held fixed, another unadjusted table leaves Adj
\* Price, Change %, Weekly %, the Ichimoku labels, RSI and the adjusted low
\* as they are; with the unadjusted table held fixed, another adjusted
\* table leaves Current Price, the unadjusted low and percent-from-low as
\* they are.
C14_NeverBlended ==
    row.ok =>
       /\ \A u \in UnadjTables :
             LET other == ApplyFn(row.fn, [given EXCEPT !.unadj = u])
             IN  other.ok => AdjustedGroup(other) = AdjustedGroup(row)
       /\ \A b \in OtherTables :
             LET other == ApplyFn(row.fn, [given EXCEPT !.bars = b])
             IN  other.ok => UnadjustedGroup(other) = UnadjustedGroup(row)

\* C15 (as claimed): percent-from-low is (current unadjusted price -
\* unadjusted low) / unadjusted low; it is "N/A" when the unadjusted low
\* is zero or missing or the current unadjusted price is missing or NaN,
\* and it is never infinite or NaN.
C15_PercentFromLowGuarded ==
    (row.fn \in TechnicalFns /\ row.ok) =>
       LET current == UnadjCurrent(given.unadj)
           low == UnadjLow(given.unadj, NaN)
       IN  /\ row.from_low.k \notin {"inf", "nan"}
           /\ IF current.k = "num" /\ low.k = "num" /\ low.v # 0
              THEN row.from_low = Num(Round((current.v - low.v) * 10000, low.v))
              ELSE row.from_low = NA

\* What a Tenkan/Kijun label says.
TkClass(label) ==
    IF label \in {"Bullish (Tenkan > Kijun)", "Bullish (TS above KS)"} THEN "Bullish"
    ELSE IF label \in {"Bearish (Tenkan < Kijun)", "Bearish (TS below KS)"} THEN "Bearish"
    ELSE "undefined"

\* C16 (as claimed): the Tenkan/Kijun label is the undefined sentinel, and
\* neither Bullish nor Bearish, when Tenkan or Kijun is missing; otherwise
\* it is Bullish exactly when Tenkan > Kijun and Bearish when Tenkan <=
\* Kijun.
C16_TenkanKijunLabel ==
    (row.fn \in TechnicalFns /\ row.ok) =>
       LET Tenkan == given.ind.Tenkan
           Kijun == given.ind.Kijun
       IN  TkClass(row.tk) =
              IF Tenkan.k # "num" \/ Kijun.k # "num" THEN "undefined"
              ELSE IF Tenkan.v > Kijun.v THEN "Bullish"
              ELSE "Bearish"

\* C17 (as claimed): the adjusted lookback low is the least Low of the N
\* most recent bars, N = 252, 126, 63 or 21 by period label: each of these
\* bars counts and no older one; when there is no such bar or all their
\* lows are missing it is NaN; it is never a made-up zero.
C17_LookbackLowOverTrailingBars ==
    (row.fn \in TechnicalFns /\ row.ok) =>
       LET window == TailRows(Bars, swing_periods[given.period_label])
           lows == {window[j].Low.v : j \in {h \in 1..Len(window) : window[h].Low.k = "num"}}
       IN  IF lows = {} THEN row.adj_low = NaN
           ELSE /\ row.adj_low.k = "num"
                /\ row.adj_low.v \in lows
                /\ \A x \in lows : row.adj_low.v <= x

\* C18 (as claimed): in every analysis path Weekly % is (latest close -
\* close at offset -6) / close at offset -6 when the series has at least 6
\* bars, and "N/A" otherwise.
C18_WeeklyChangeFromBarMinusSix ==
    row.ok =>
       LET data == IF row.fn \in {"run_technical_analysis", "run_generic_analysis"}
                   THEN Bars ELSE given.bars
       IN  IF Len(data) >= 6
           THEN LET latest == ILoc(data, 1).Close
                    week_ago == ILoc(data, 6).Close
                IN  (latest.k = "num" /\ week_ago.k = "num" /\ week_ago.v # 0) =>
                       row.weekly = Num(Round((latest.v - week_ago.v) * 10000, week_ago.v))
           ELSE row.weekly = NA

\* C19: the RSI label is one of Overbought, Oversold and Neutral and is
\* decided by the RSI value alone: Overbought exactly when it is above 70,
\* Oversold exactly when it is below 30, Neutral in every other case (the
\* values 70 and 30 and a missing value included).
C19_RsiLabel ==
    row.ok =>
       LET rsi_val == given.ind.RSI_14 IN
       /\ row.rsi.label \in {"Overbought", "Oversold", "Neutral"}
       /\ row.rsi.label = "Overbought" <=> (rsi_val.k = "num" /\ rsi_val.v > 70)
       /\ row.rsi.label = "Oversold" <=> (rsi_val.k = "num" /\ rsi_val.v < 30)
       /\ row.rsi.shown = rsi_val

\* C19 witness: an RSI of exactly 70 was labelled Neutral.
C19_Witness ==
    /\ row.ok
    /\ given.ind.RSI_14 = Num(70)
    /\ row.rsi.label = "Neutral"

\* What a cloud label says.
CloudClass(label) ==
    IF label = "Bullish (Above Cloud)" THEN "Bullish"
    ELSE IF label = "Bearish (Below Cloud)" THEN "Bearish"
    ELSE IF label \in {"Neutral (In Cloud)", "Sideways (In Cloud)"} THEN "Neutral"
    ELSE "none"

\* C20: the cloud label is Bullish exactly when the latest close is above
\* both Senkou spans, Bearish exactly when it is below both, and
\* Neutral/Sideways in every other case (between the spans, equal to one,
\* or a span missing).
C20_CloudLabel ==
    (row.ok /\ row.fn # "get_generic_analysis") =>
       LET data == IF row.fn = "get_technical_analysis" THEN given.bars ELSE Bars
           close == ILoc(data, 1).Close
           SenkouA == given.ind.SenkouA
           SenkouB == given.ind.SenkouB
           above == close.k = "num" /\ SenkouA.k = "num" /\ SenkouB.k = "num"
                    /\ close.v > SenkouA.v /\ close.v > SenkouB.v
           below == close.k = "num" /\ SenkouA.k = "num" /\ SenkouB.k = "num"
                    /\ close.v < SenkouA.v /\ close.v < SenkouB.v
       IN  CloudClass(row.cloud) =
              IF above THEN "Bullish" ELSE IF below THEN "Bearish" ELSE "Neutral"

\* C20 witness: latest close 50 with Senkou A 45 and Senkou B 40 was
\* labelled Bullish.
C20_Witness ==
    /\ row.ok
    /\ row.fn = "run_technical_analysis"
    /\ ILoc(Bars, 1).Close = Num(50)
    /\ given.ind.SenkouA = Num(45)
    /\ given.ind.SenkouB = Num(40)
    /\ row.cloud = "Bullish (Above Cloud)"

\* C21: Change % of a record is (latest.close - prev.close) / prev.close,
\* latest and prev being the last and the second-to-last bar of the
\* adjusted series; closes of 110 after 100 give 10.00%.
C21_ChangeFromPreviousBar ==
    row.ok =>
       LET data == IF row.fn \in {"run_technical_analysis", "run_generic_analysis"}
                   THEN Bars ELSE given.bars
           latest == ILoc(data, 1).Close
           prev == ILoc(data, 2).Close
       IN  /\ (latest.k = "num" /\ prev.k = "num" /\ prev.v # 0) =>
                 row.change = Num(Round((latest.v - prev.v) * 10000, prev.v))
           /\ (latest = Num(110) /\ prev = Num(100)) => row.change = Num(1000)

\* C21 witness: a technical analysis of the 55-bar series ending 100, 110
\* gave a change of 10.00%.
C21_Witness ==
    /\ row.ok
    /\ row.fn \in TechnicalFns
    /\ Len(given.bars) = ExampleRows
    /\ ILoc(given.bars, 1).Close = Num(110)
    /\ ILoc(given.bars, 2).Close = Num(100)
    /\ row.change = Num(1000)

\* C22 (as claimed): for symbols that all succeed in one batch, the master
\* table sliced for a symbol equals the series fetch_data returns for that
\* symbol from the same provider data: the same dates with the same
\* adjusted values, no bar added or removed.
C22_SliceEqualsSingleFetch ==
    row.fn = "ticker_data" =>
       LET single == SingleFetch(given, row.ticker)
       IN  /\ ~single.none
           /\ row.bars = single.bars

\* The rows of the given daily table that hold values, and those of them
\* in the week that ends on a label.
DailyBars == SelectSeq(given.bars, LAMBDA b : b.Close.k = "num")
WeekBars(label) == SelectSeq(DailyBars, LAMBDA b : WeekEnd(b.date) = label)

\* C23: resample_to_weekly groups the daily bars into weeks ending on
\* Friday; the row of a week has the open of the week's first bar, the
\* maximum high, the minimum low, the close of the last bar and the sum of
\* the volumes; the last, possibly partial, week is kept; an absent or
\* empty input gives the absent result.
C23_WeeklyAggregation ==
    row.fn = "resample_to_weekly" =>
       /\ row.ok <=> ~(given.none \/ given.bars = <<>>)
       /\ row.ok =>
             /\ \A j \in 1..Len(DailyBars) :
                   \E w \in 1..Len(row.bars) : row.bars[w].date = WeekEnd(DailyBars[j].date)
             /\ \A w \in 1..Len(row.bars) :
                   LET bars == WeekBars(row.bars[w].date)
                       out == row.bars[w]
                   IN  bars # <<>> =>
                          /\ out.Open = bars[1].Open
                          /\ out.Close = bars[Len(bars)].Close
                          /\ \A j \in 1..Len(bars) :
                                out.High.v >= bars[j].High.v /\ out.Low.v <= bars[j].Low.v
                          /\ \E j \in 1..Len(bars) : out.High = bars[j].High
                          /\ \E j \in 1..Len(bars) : out.Low = bars[j].Low
                          /\ out.Volume = Num(SumOf([j \in 1..Len(bars) |-> bars[j].Volume]))
             /\ \A w \in 1..(Len(row.bars) - 1) : row.bars[w].date < row.bars[w + 1].date

\* C23 witness: a week of two different bars and a last week that ends
\* before its Friday were resampled.
C23_Witness ==
    /\ row.fn = "resample_to_weekly"
    /\ row.ok
    /\ Len(given.bars) = Len(DailyBars)
    /\ \E w \in 1..Len(row.bars) :
          /\ Len(WeekBars(row.bars[w].date)) = 2
          /\ row.bars[w].Volume = Num(12)
          /\ row.bars[w].Open # WeekBars(row.bars[w].date)[2].Open
    /\ given.bars[Len(given.bars)].date % 7 = 0
    /\ row.bars[Len(row.bars)].Close = given.bars[Len(given.bars)].Close

\* C24 (as claimed): for a daily series whose bars all have high >= low,
\* every row resample_to_weekly gives is dated on a Friday (or on the last
\* trading day of an incomplete last week), belongs to a week that holds
\* at least one daily bar, and has high >= low.
C24_WeeklyBarsWellFormed ==
    (/\ row.fn = "resample_to_weekly"
     /\ row.ok
     /\ \A j \in 1..Len(given.bars) :
           /\ given.bars[j].High.k = "num"
           /\ given.bars[j].Low.k = "num"
           /\ given.bars[j].High.v >= given.bars[j].Low.v) =>
       \A w \in 1..Len(row.bars) :
          LET out == row.bars[w] IN
          /\ \/ out.date % 7 = FRIDAY
             \/ w = Len(row.bars) /\ out.date = given.bars[Len(given.bars)].date
          /\ WeekBars(out.date) # <<>>
          /\ out.High.k = "num"
          /\ out.Low.k = "num"
          /\ out.High.v >= out.Low.v

\* C25 (as claimed): the individual lookup never ends in an uncaught
\* exception: for any entered symbol (a universe symbol absent from the
\* master table, a symbol with fewer than 2 usable bars or fewer than 30
\* bars included) it ends by showing the analysis or an error message.
C25_LookupNeverRaises ==
    row.fn = "individual_analysis" => row.outcome \in {"analysis", "error"}

=============================================================================
